---------------------------- MODULE Spec2Model ----------------------------
(***************************************************************************)
(* llvm-objcopy, WebAssembly back end: the object model (WasmObject.h),    *)
(* Reader::create (WasmReader.cpp), Object::removeSections and             *)
(* Object::finalizeLinking with its SectionWriter (WasmObject.cpp).        *)
(*                                                                         *)
(* Indices (section indices, element indices, positions in a std::vector)  *)
(* keep the code's 0-based values; a TLA+ sequence holds element I at      *)
(* position I + 1.  A std::optional<T> is the set {} or {v}.  A StringRef  *)
(* or ArrayRef<uint8_t> is the sequence of its bytes.                      *)
(***************************************************************************)
EXTENDS Integers, Sequences, FiniteSets, TLC

VARIABLES
    pc,              \* "start" | "ready" | "error" | "aborted" | "enc" | "encoded"
    WasmObj,         \* the decoded module handed to Reader (sections, symbols, ...)
    Symbols,         \* Object::Symbols
    OpaqueSections,  \* Object::OpaqueSections
    LinkingData,     \* Object::LinkingData
    DataSegments,    \* Object::DataSegments
    Err,             \* message of the Error returned / reported by Reader::create
    Calls,           \* history: one record per removeSections call made so far
    Out              \* the buffer finalizeLinking returned

vars == <<pc, WasmObj, Symbols, OpaqueSections, LinkingData, DataSegments,
          Err, Calls, Out>>

(***************************************************************************)
(* Bounds of the model.                                                    *)
(***************************************************************************)
MaxSections == 3
MaxSymbols == 2
MaxCalls == 2
MaxEncSymbols == 2
MaxEncEntries == 1

(***************************************************************************)
(* Constants of llvm/BinaryFormat/Wasm.h used by the three files.          *)
(***************************************************************************)
WASM_SEC_CUSTOM == 0
WASM_SEC_CODE == 10
WASM_SEC_LAST_KNOWN == 13
WASM_SYMBOL_TYPE_FUNCTION == 0
WASM_SYMBOL_TYPE_DATA == 1
WASM_SYMBOL_TYPE_GLOBAL == 2
WASM_SYMBOL_TYPE_SECTION == 3
WASM_SYMBOL_TYPE_TAG == 4
WASM_SYMBOL_TYPE_TABLE == 5
WASM_SYMBOL_UNDEFINED == 16
WASM_SYMBOL_EXPLICIT_NAME == 64
WASM_SEGMENT_INFO == 5
WASM_INIT_FUNCS == 6
WASM_COMDAT_INFO == 7
WASM_SYMBOL_TABLE == 8
WasmMetadataVersion == 2

\* Info.Flags & Bit, for a single-bit mask Bit.
HasFlag(Flags, Bit) == (Flags \div Bit) % 2 = 1

Range(s) == {s[i] : i \in 1..Len(s)}

\* All sequences over S of length at most n.
SeqsUpTo(S, n) == UNION {[1..k -> S] : k \in 0..n}

(***************************************************************************)
(* Names, as byte strings.                                                 *)
(***************************************************************************)
NameA == <<65>>                                       \* "A"
NameRelocA == <<114, 101, 108, 111, 99, 46, 65>>      \* "reloc.A"
NameLinking == <<108, 105, 110, 107, 105, 110, 103>>  \* "linking"
RelocPrefix == <<114, 101, 108, 111, 99, 46>>         \* "reloc."

\* StringRef::starts_with
starts_with(Str, Prefix) ==
    /\ Len(Str) >= Len(Prefix)
    /\ SubSeq(Str, 1, Len(Prefix)) = Prefix

\* sectionTypeToString: the canonical name of a known section type.
sectionTypeToString(Type) ==
    IF Type = WASM_SEC_CODE THEN <<67, 79, 68, 69>>   \* "CODE"
    ELSE <<>>

(***************************************************************************)
(* llvm::decodeULEB128(p, &n, end, &error).  The 64-bit result is kept as  *)
(* its base-128 digits (Slices, least significant first): the values the   *)
(* reader must tell apart lie above 2^31.                                  *)
(***************************************************************************)
RECURSIVE decodeULEB128From(_, _, _)
decodeULEB128From(Bytes, k, Slices) ==
    IF k >= Len(Bytes)
    THEN [Error |-> "malformed uleb128, extends past end", Slices |-> <<>>]
    ELSE LET Byte == Bytes[k + 1]
             Slice == Byte % 128
         IN  IF \/ 7 * k >= 64
                \/ (7 * k = 63 /\ Slice > 1)
             THEN [Error |-> "uleb128 too big for uint64", Slices |-> <<>>]
             ELSE IF Byte >= 128
                  THEN decodeULEB128From(Bytes, k + 1, Append(Slices, Slice))
                  ELSE [Error |-> "", Slices |-> Append(Slices, Slice)]

decodeULEB128(Bytes) == decodeULEB128From(Bytes, 0, <<>>)

\* Value > UINT32_MAX, on the digits: a bit at or above bit 32 is set.
AboveUint32(Slices) ==
    \E i \in 1..Len(Slices) :
        \/ (i > 5 /\ Slices[i] # 0)
        \/ (i = 5 /\ Slices[i] >= 16)

\* Value >= N for a small N (N <= 128), on the digits.
AtLeast(Slices, N) ==
    \/ \E i \in 2..Len(Slices) : Slices[i] # 0
    \/ (Len(Slices) >= 1 /\ Slices[1] >= N)

\* readULEB128: a decode error is handed to report_fatal_error.
readULEB128(Content) ==
    LET D == decodeULEB128(Content)
    IN  [Fatal |-> D.Error, Slices |-> D.Slices]

\* readVaruint32: a value above UINT32_MAX is handed to report_fatal_error.
readVaruint32(Content) ==
    LET R == readULEB128(Content)
    IN  IF R.Fatal # "" THEN R
        ELSE IF AboveUint32(R.Slices)
             THEN [Fatal |-> "LEB is outside 32-bit bounds", Slices |-> <<>>]
             ELSE R

(***************************************************************************)
(* Reader::create, the loop over WasmObj.sections().  One call handles     *)
(* section number k + 1 of the input; Acc is the Object built so far.      *)
(***************************************************************************)
NewSection(WS) ==
    [SectionType |-> WS.Type,
     HeaderSecSizeEncodingLen |-> WS.HeaderSecSizeEncodingLen,
     Name |-> IF WS.Type # WASM_SEC_CUSTOM
              THEN sectionTypeToString(WS.Type) ELSE WS.Name,
     Contents |-> WS.Content,
     RelocationSectionIdx |-> {}]

RECURSIVE ReadSections(_, _, _)
ReadSections(In, k, Acc) ==
    IF k >= Len(In.sections) THEN Acc
    ELSE
    LET WS == In.sections[k + 1]
        IsReloc == WS.Type = WASM_SEC_CUSTOM /\ starts_with(WS.Name, RelocPrefix)
        R == readVaruint32(WS.Content)
        Linked ==
            IF IsReloc
            THEN [Acc.Sections EXCEPT
                    ![R.Slices[1] + 1].RelocationSectionIdx = {Len(Acc.Sections)}]
            ELSE Acc.Sections
        IsLinking == WS.Type = WASM_SEC_CUSTOM /\ WS.Name = NameLinking
    IN  IF WS.Type > WASM_SEC_LAST_KNOWN
        THEN [Acc EXCEPT !.pc = "error", !.Err = "Invalid section type"]
        ELSE IF IsReloc /\ R.Fatal # ""
        THEN [Acc EXCEPT !.pc = "aborted", !.Err = R.Fatal]
        ELSE IF IsReloc /\ AtLeast(R.Slices, Len(Acc.Sections))
        THEN [Acc EXCEPT !.pc = "error",
                !.Err = "Referenced section index in reloc section is outside bounds"]
        ELSE ReadSections(In, k + 1,
                [Acc EXCEPT
                    !.Sections = Append(Linked, NewSection(WS)),
                    !.LinkingData = IF IsLinking THEN In.linkingData ELSE @])

NoLinkingData == [InitFunctions |-> <<>>, Comdats |-> <<>>]

\* Reader::create as a whole.  DataSegments is reserve()d and then copied to
\* through begin(): its size stays 0.
ReaderCreate(In) ==
    ReadSections(In, 0,
        [pc |-> "ready", Err |-> "", Sections |-> <<>>,
         LinkingData |-> NoLinkingData])


(***************************************************************************)
(* Object::removeSections.                                                 *)
(***************************************************************************)
\* The predicate handed to removeSections: P is the set of Section values
\* it answers true for.
ToRemove(P, S) == S \in P

\* MarkLoop with the matching section's own index forgotten whenever it has
\* a relocation section.
RECURSIVE MarkLoopRelocOnly(_, _, _, _)
MarkLoopRelocOnly(Secs, P, I, Marked) ==
    IF I >= Len(Secs) THEN Marked
    ELSE LET S == Secs[I + 1]
         IN  IF ToRemove(P, S)
             THEN MarkLoopRelocOnly(Secs, P, I + 1,
                    IF S.RelocationSectionIdx # {}
                    THEN Append(Marked,
                                CHOOSE r \in S.RelocationSectionIdx : TRUE)
                    ELSE Append(Marked, I))
             ELSE MarkLoopRelocOnly(Secs, P, I + 1, Marked)

\* Lines 47-56: push every matching index and, if present, its
\* RelocationSectionIdx.
RECURSIVE MarkLoop(_, _, _, _)
MarkLoop(Secs, P, I, Marked) ==
    IF I >= Len(Secs) THEN Marked
    ELSE LET S == Secs[I + 1]
         IN  IF ToRemove(P, S)
             THEN MarkLoop(Secs, P, I + 1,
                    IF S.RelocationSectionIdx # {}
                    THEN Marked \o <<I>> \o
                         <<CHOOSE r \in S.RelocationSectionIdx : TRUE>>
                    ELSE Append(Marked, I))
             ELSE MarkLoop(Secs, P, I + 1, Marked)

std_sort(V) == SortSeq(V, LAMBDA a, b : a < b)

\* std::unique followed by erase: consecutive duplicates dropped.
RECURSIVE std_unique(_)
std_unique(V) ==
    IF Len(V) <= 1 THEN V
    ELSE IF V[1] = V[2] THEN std_unique(Tail(V))
         ELSE <<V[1]>> \o std_unique(Tail(V))

\* Lines 44-62.
MarkedSectionsOf(Secs, P) == std_unique(std_sort(MarkLoop(Secs, P, 0, <<>>)))

\* std::upper_bound: the position of the first element greater than Value,
\* Len(V) for end().
RECURSIVE upper_bound(_, _, _)
upper_bound(V, Value, Pos) ==
    IF Pos >= Len(V) \/ V[Pos + 1] > Value THEN Pos
    ELSE upper_bound(V, Value, Pos + 1)

\* std::binary_search on the sorted vector.
binary_search(V, Value) == \E i \in 1..Len(V) : V[i] = Value

\* S.Contents.size() - HeaderSize of OpaqueSections[I] (lines 81-85, 91-95).
\* I at or past the section count reads outside the vector: Junk.
SectionBytes(Secs, I, Junk) ==
    IF I < Len(Secs)
    THEN LET S == Secs[I + 1]
             HeaderSize == IF S.HeaderSecSizeEncodingLen # {}
                           THEN CHOOSE h \in S.HeaderSecSizeEncodingLen : TRUE
                           ELSE 5
         IN  Len(S.Contents) - HeaderSize
    ELSE Junk

\* for (size_t I = *Upper; I < MarkedSections.size(); I++)
\*     Info.DataRef.Offset -= S.Contents.size() - HeaderSize;
\* Offset is kept as an integer congruent to the uint64_t modulo 2^64.
RECURSIVE OffsetLoop(_, _, _, _, _)
OffsetLoop(Offset, I, Marked, Secs, Junk) ==
    IF I >= Len(Marked) THEN Offset
    ELSE OffsetLoop(Offset - SectionBytes(Secs, I, Junk), I + 1, Marked, Secs, Junk)

\* *Upper (lines 80, 90).  At end() the read is past the vector's last
\* element: Garbage.
DerefUpper(Marked, Upper, Garbage) ==
    IF Upper < Len(Marked) THEN Marked[Upper + 1] ELSE Garbage

IndexKinds == {WASM_SYMBOL_TYPE_FUNCTION, WASM_SYMBOL_TYPE_GLOBAL,
               WASM_SYMBOL_TYPE_TAG, WASM_SYMBOL_TYPE_TABLE}

\* std::distance(MarkedSections.end(), Upper) (lines 79, 100).
DistanceFromEnd(Marked, Upper) == Upper - Len(Marked)

\* The body of the loop over Symbols, lines 68-106, for one symbol.  The
\* uint32_t ElementIndex cannot wrap: it grows by the number of marked
\* indices above it, all of which are uint32_t values.
PatchSymbol(Info, Marked, Secs, Garbage, Junk) ==
    LET Upper == upper_bound(Marked, Info.ElementIndex, 0)
        Patched == OffsetLoop(Info.DataRef.Offset,
                              DerefUpper(Marked, Upper, Garbage),
                              Marked, Secs, Junk)
    IN  IF Info.Kind \in IndexKinds
        THEN [Info EXCEPT
                !.ElementIndex = @ - DistanceFromEnd(Marked, Upper),
                !.DataRef.Offset = Patched]
        ELSE IF Info.Kind = WASM_SYMBOL_TYPE_DATA
        THEN IF ~HasFlag(Info.Flags, WASM_SYMBOL_UNDEFINED)
             THEN [Info EXCEPT !.DataRef.Offset = Patched]
             ELSE Info
        ELSE [Info EXCEPT !.ElementIndex = @ - DistanceFromEnd(Marked, Upper)]

PatchSymbols(Syms, Marked, Secs, Garbage, Junk) ==
    [i \in 1..Len(Syms) |-> PatchSymbol(Syms[i], Marked, Secs, Garbage, Junk)]

\* std::vector::erase(begin() + I), I a valid position.
EraseAt(V, I) == SubSeq(V, 1, I) \o SubSeq(V, I + 2, Len(V))

\* EraseSections walking the marked positions lowest first, k of them still
\* to be erased.
RECURSIVE EraseSectionsForward(_, _, _, _)
EraseSectionsForward(Secs, Marked, k, Ub) ==
    IF k = 0 THEN [ok |-> TRUE, Secs |-> Secs]
    ELSE LET I == Marked[Len(Marked) - k + 1]
         IN  IF I < Len(Secs)
             THEN EraseSectionsForward(EraseAt(Secs, I), Marked, k - 1, Ub)
             ELSE IF Ub = "abort" \/ Len(Secs) = 0
                  THEN [ok |-> FALSE, Secs |-> Secs]
                  ELSE EraseSectionsForward(SubSeq(Secs, 1, Len(Secs) - 1),
                                            Marked, k - 1, Ub)

\* Lines 108-110: erase the marked positions, highest first.  k marked
\* positions are still to be erased.  Erasing at or past end() is undefined:
\* the build either dies in the element move (Ub = "abort") or moves nothing
\* and drops the last element (Ub = "droplast"); dropping from an empty
\* vector leaves no usable object.
RECURSIVE EraseSections(_, _, _, _)
EraseSections(Secs, Marked, k, Ub) ==
    IF k = 0 THEN [ok |-> TRUE, Secs |-> Secs]
    ELSE LET I == Marked[k]
         IN  IF I < Len(Secs)
             THEN EraseSections(EraseAt(Secs, I), Marked, k - 1, Ub)
             ELSE IF Ub = "abort" \/ Len(Secs) = 0
                  THEN [ok |-> FALSE, Secs |-> Secs]
                  ELSE EraseSections(SubSeq(Secs, 1, Len(Secs) - 1),
                                     Marked, k - 1, Ub)

isTypeSection(Info) == Info.Kind = WASM_SYMBOL_TYPE_SECTION

\* Lines 112-121: the positions of the symbols to delete, in ascending order.
RECURSIVE MarkedSymbolsOf(_, _, _)
MarkedSymbolsOf(Syms, Marked, I) ==
    IF I >= Len(Syms) THEN <<>>
    ELSE IF isTypeSection(Syms[I + 1])
            /\ binary_search(Marked, Syms[I + 1].ElementIndex)
         THEN <<I>> \o MarkedSymbolsOf(Syms, Marked, I + 1)
         ELSE MarkedSymbolsOf(Syms, Marked, I + 1)

\* Lines 123-125: erase them, highest first.
RECURSIVE EraseSymbols(_, _, _)
EraseSymbols(Syms, MarkedSymbols, k) ==
    IF k = 0 THEN Syms
    ELSE EraseSymbols(EraseAt(Syms, MarkedSymbols[k]), MarkedSymbols, k - 1)

\* The whole call on an Object (Syms, Secs), lines 43-131.
removeSections(Syms, Secs, P, Garbage, Junk, Ub) ==
    LET Marked == MarkedSectionsOf(Secs, P)
    IN  IF Marked = <<>>
        THEN [ok |-> TRUE, Symbols |-> Syms, OpaqueSections |-> Secs]
        ELSE LET Patched == PatchSymbols(Syms, Marked, Secs, Garbage, Junk)
                 Erased == EraseSections(Secs, Marked, Len(Marked), Ub)
                 MarkedSymbols == MarkedSymbolsOf(Patched, Marked, 0)
             IN  [ok |-> Erased.ok,
                  Symbols |-> EraseSymbols(Patched, MarkedSymbols,
                                           Len(MarkedSymbols)),
                  OpaqueSections |-> Erased.Secs]

(***************************************************************************)
(* llvm::encodeULEB128(Value, p, PadTo): the bytes it stores at p.         *)
(***************************************************************************)
RECURSIVE encodeULEB128(_, _)
encodeULEB128(Value, PadTo) ==
    IF Value \div 128 # 0
    THEN <<(Value % 128) + 128>> \o encodeULEB128(Value \div 128, PadTo - 1)
    ELSE IF PadTo > 1
         THEN <<(Value % 128) + 128>>
              \o [i \in 1..PadTo - 2 |-> 128] \o <<0>>
         ELSE <<Value % 128>>

(***************************************************************************)
(* SectionWriter.  A writer W is [Buffer, Cursor, Subsections]; the stack  *)
(* Subsections has its top last.                                           *)
(***************************************************************************)
NewWriter == [Buffer |-> <<>>, Cursor |-> 0, Subsections |-> <<>>]

\* std::vector<uint8_t>::resize(N): cut, or filled up with zero bytes.
resize(V, N) ==
    IF N <= Len(V) THEN SubSeq(V, 1, N)
    ELSE V \o [i \in 1..N - Len(V) |-> 0]

\* Bytes stored over V from position Pos on.
StoreAt(V, Pos, Bytes) ==
    [i \in 1..Len(V) |->
        IF i > Pos /\ i <= Pos + Len(Bytes) THEN Bytes[i - Pos] ELSE V[i]]

writeULEB128(W, Value, PadTo) ==
    LET Bytes == encodeULEB128(Value, PadTo)
    IN  [W EXCEPT
            !.Buffer = StoreAt(resize(W.Buffer, W.Cursor + 10), W.Cursor, Bytes),
            !.Cursor = W.Cursor + Len(Bytes)]

insertULEB128(W, Value, Offset) ==
    [W EXCEPT !.Buffer = StoreAt(W.Buffer, Offset, encodeULEB128(Value, 0))]

writeVaruint32(W, Value) == writeULEB128(W, Value, 0)

writeBytes(W, Bytes) ==
    [W EXCEPT
        !.Buffer = SubSeq(W.Buffer, 1, W.Cursor) \o Bytes
                   \o SubSeq(W.Buffer, W.Cursor + 1, Len(W.Buffer)),
        !.Cursor = W.Cursor + Len(Bytes)]

writeString(W, Str) == writeBytes(W, Str)

startSubsection(W, Kind) ==
    writeULEB128([W EXCEPT !.Buffer = Append(W.Buffer, Kind),
                           !.Cursor = W.Cursor + 1,
                           !.Subsections = Append(W.Subsections, W.Cursor + 1)],
                 0, 5)

endSubsection(W) ==
    LET Offset == W.Subsections[Len(W.Subsections)]
        Inserted == insertULEB128(W, W.Cursor - Offset, Offset)
    IN  [Inserted EXCEPT
            !.Subsections = SubSeq(W.Subsections, 1, Len(W.Subsections) - 1)]

finalize(W) == resize(W.Buffer, W.Cursor)

(***************************************************************************)
(* Object::finalizeLinking.                                                *)
(***************************************************************************)
\* WriteSymbol with the dataRef of a Data symbol written whatever its flags.
WriteSymbolDataRefAlways(W, Info) ==
    LET Flagged == writeULEB128(writeULEB128(W, Info.Kind, 0), Info.Flags, 0)
    IN  IF Info.Kind \in {WASM_SYMBOL_TYPE_FUNCTION, WASM_SYMBOL_TYPE_GLOBAL,
                          WASM_SYMBOL_TYPE_TAG, WASM_SYMBOL_TYPE_TABLE}
        THEN LET Indexed == writeULEB128(Flagged, Info.ElementIndex, 0)
             IN  IF \/ ~HasFlag(Info.Flags, WASM_SYMBOL_UNDEFINED)
                    \/ HasFlag(Info.Flags, WASM_SYMBOL_EXPLICIT_NAME)
                 THEN writeString(Indexed, Info.Name)
                 ELSE Indexed
        ELSE IF Info.Kind = WASM_SYMBOL_TYPE_DATA
        THEN writeULEB128(
                 writeULEB128(
                     writeULEB128(writeString(Flagged, Info.Name),
                                  Info.DataRef.Segment, 0),
                     Info.DataRef.Offset, 0),
                 Info.DataRef.Size, 0)
        ELSE writeULEB128(Flagged, Info.ElementIndex, 0)

\* Lines 209-238: one symbol's record.
WriteSymbol(W, Info) ==
    LET Flagged == writeULEB128(writeULEB128(W, Info.Kind, 0), Info.Flags, 0)
    IN  IF Info.Kind \in {WASM_SYMBOL_TYPE_FUNCTION, WASM_SYMBOL_TYPE_GLOBAL,
                          WASM_SYMBOL_TYPE_TAG, WASM_SYMBOL_TYPE_TABLE}
        THEN LET Indexed == writeULEB128(Flagged, Info.ElementIndex, 0)
             IN  IF \/ ~HasFlag(Info.Flags, WASM_SYMBOL_UNDEFINED)
                    \/ HasFlag(Info.Flags, WASM_SYMBOL_EXPLICIT_NAME)
                 THEN writeString(Indexed, Info.Name)
                 ELSE Indexed
        ELSE IF Info.Kind = WASM_SYMBOL_TYPE_DATA
        THEN LET Named == writeString(Flagged, Info.Name)
             IN  IF ~HasFlag(Info.Flags, WASM_SYMBOL_UNDEFINED)
                 THEN writeULEB128(
                          writeULEB128(
                              writeULEB128(Named, Info.DataRef.Segment, 0),
                              Info.DataRef.Offset, 0),
                          Info.DataRef.Size, 0)
                 ELSE Named
        ELSE writeULEB128(Flagged, Info.ElementIndex, 0)

RECURSIVE WriteSymbols(_, _)
WriteSymbols(W, Syms) ==
    IF Syms = <<>> THEN W
    ELSE WriteSymbols(WriteSymbol(W, Syms[1]), Tail(Syms))

\* Lines 247-251.
RECURSIVE WriteSegments(_, _)
WriteSegments(W, Segs) ==
    IF Segs = <<>> THEN W
    ELSE WriteSegments(
             writeULEB128(
                 writeULEB128(writeString(W, Segs[1].Name),
                              Segs[1].Alignment, 0),
                 Segs[1].LinkingFlags, 0),
             Tail(Segs))

\* Lines 259-262.
RECURSIVE WriteInitFuncs(_, _)
WriteInitFuncs(W, Funcs) ==
    IF Funcs = <<>> THEN W
    ELSE WriteInitFuncs(
             writeULEB128(writeULEB128(W, Funcs[1].Priority, 0),
                          Funcs[1].Symbol, 0),
             Tail(Funcs))

\* Lines 270-275.
RECURSIVE WriteComdats(_, _)
WriteComdats(W, Comdats) ==
    IF Comdats = <<>> THEN W
    ELSE WriteComdats(
             writeULEB128(writeULEB128(writeString(W, Comdats[1]), 0, 0),
                          Len(Comdats[1]), 0),
             Tail(Comdats))

\* finalizeLinking with the Symbol Table subsection written even when there
\* are no symbols.
finalizeLinkingSymtabAlways(Syms, Segs, Linking) ==
    LET W0 == writeVaruint32(NewWriter, WasmMetadataVersion)
        W1 == endSubsection(
                  WriteSymbols(
                      writeULEB128(startSubsection(W0, WASM_SYMBOL_TABLE),
                                   Len(Syms), 0),
                      Syms))
        W2 == IF Segs # <<>>
              THEN endSubsection(
                       WriteSegments(
                           writeVaruint32(
                               startSubsection(W1, WASM_SEGMENT_INFO),
                               Len(Segs)),
                           Segs))
              ELSE W1
        W3 == IF Linking.InitFunctions # <<>>
              THEN endSubsection(
                       WriteInitFuncs(
                           writeULEB128(startSubsection(W2, WASM_INIT_FUNCS),
                                        Len(Linking.InitFunctions), 0),
                           Linking.InitFunctions))
              ELSE W2
        W4 == IF Linking.Comdats # <<>>
              THEN endSubsection(
                       WriteComdats(
                           writeULEB128(startSubsection(W3, WASM_COMDAT_INFO),
                                        Len(Linking.Comdats), 0),
                           Linking.Comdats))
              ELSE W3
    IN  finalize(W4)

\* Lines 195-280, on an Object's Symbols, DataSegments and LinkingData.
finalizeLinking(Syms, Segs, Linking) ==
    LET W0 == writeVaruint32(NewWriter, WasmMetadataVersion)
        W1 == IF Syms # <<>>
              THEN endSubsection(
                       WriteSymbols(
                           writeULEB128(startSubsection(W0, WASM_SYMBOL_TABLE),
                                        Len(Syms), 0),
                           Syms))
              ELSE W0
        W2 == IF Segs # <<>>
              THEN endSubsection(
                       WriteSegments(
                           writeVaruint32(
                               startSubsection(W1, WASM_SEGMENT_INFO),
                               Len(Segs)),
                           Segs))
              ELSE W1
        W3 == IF Linking.InitFunctions # <<>>
              THEN endSubsection(
                       WriteInitFuncs(
                           writeULEB128(startSubsection(W2, WASM_INIT_FUNCS),
                                        Len(Linking.InitFunctions), 0),
                           Linking.InitFunctions))
              ELSE W2
        W4 == IF Linking.Comdats # <<>>
              THEN endSubsection(
                       WriteComdats(
                           writeULEB128(startSubsection(W3, WASM_COMDAT_INFO),
                                        Len(Linking.Comdats), 0),
                           Linking.Comdats))
              ELSE W3
    IN  finalize(W4)

(***************************************************************************)
(* The decoded modules Reader::create is run on.                           *)
(***************************************************************************)
InSection(Type, Name, Content, HeaderLen) ==
    [Type |-> Type, Name |-> Name, Content |-> Content,
     HeaderSecSizeEncodingLen |-> HeaderLen]

SectionChoices ==
    { InSection(WASM_SEC_CUSTOM, NameA, <<1, 2, 3, 4, 5, 6>>, {}),
      InSection(WASM_SEC_CODE, <<>>, <<1, 2, 3, 4, 5, 6, 7, 8>>, {1}),
      InSection(WASM_SEC_CUSTOM, NameRelocA, <<0, 9>>, {}),       \* targets 0
      InSection(WASM_SEC_CUSTOM, NameRelocA, <<1>>, {1}),         \* targets 1
      InSection(WASM_SEC_CUSTOM, NameRelocA, <<128>>, {}),        \* truncated
      InSection(WASM_SEC_CUSTOM, NameRelocA,
                <<128, 128, 128, 128, 16>>, {}),                  \* 2^32
      InSection(WASM_SEC_CUSTOM, NameRelocA,
                <<128, 128, 128, 128, 128, 128, 128, 128, 128, 128, 0>>,
                {}),                                              \* over-wide
      InSection(WASM_SEC_CUSTOM, NameLinking, <<2>>, {}),
      InSection(WASM_SEC_LAST_KNOWN + 1, <<>>, <<>>, {}) }

Symbol(Kind, Flags, ElementIndex, Name, Segment, Offset, Size) ==
    [Kind |-> Kind, Flags |-> Flags, ElementIndex |-> ElementIndex,
     Name |-> Name,
     DataRef |-> [Segment |-> Segment, Offset |-> Offset, Size |-> Size]]

KindOfIndex(e) ==
    CASE e % 4 = 0 -> WASM_SYMBOL_TYPE_FUNCTION
      [] e % 4 = 1 -> WASM_SYMBOL_TYPE_GLOBAL
      [] e % 4 = 2 -> WASM_SYMBOL_TYPE_TAG
      [] OTHER     -> WASM_SYMBOL_TYPE_TABLE

SymbolChoices ==
    { Symbol(KindOfIndex(e), 0, e, <<102>>, 0, 0, 0) : e \in 0..MaxSections - 1 }
    \cup
    { Symbol(WASM_SYMBOL_TYPE_SECTION, 0, e, <<>>, 0, 0, 0) :
        e \in 0..MaxSections - 1 }
    \cup
    { Symbol(WASM_SYMBOL_TYPE_DATA, 0, 0, <<100>>, 0, 40, 4),
      Symbol(WASM_SYMBOL_TYPE_DATA, WASM_SYMBOL_UNDEFINED, 0, <<117>>, 0, 40, 4) }

SomeLinkingData ==
    [InitFunctions |-> <<[Priority |-> 1, Symbol |-> 0]>>,
     Comdats |-> << <<99>> >>]

SomeDataSegments == << [Name |-> <<100>>, Alignment |-> 2, LinkingFlags |-> 0] >>

Init ==
    /\ pc = "start"
    /\ WasmObj \in [sections : SeqsUpTo(SectionChoices, MaxSections),
                    symbols : SeqsUpTo(SymbolChoices, MaxSymbols),
                    linkingData : {SomeLinkingData},
                    dataSegments : {SomeDataSegments}]
    \* The decoder accepts a Section symbol only if it names a section.
    /\ \A i \in 1..Len(WasmObj.symbols) :
          isTypeSection(WasmObj.symbols[i]) =>
              WasmObj.symbols[i].ElementIndex < Len(WasmObj.sections)
    /\ Symbols = <<>>
    /\ OpaqueSections = <<>>
    /\ LinkingData = NoLinkingData
    /\ DataSegments = <<>>
    /\ Err = ""
    /\ Calls = <<>>
    /\ Out = <<>>

\* Reader::create.  An Error return or a fatal error leaves no Object.
Create ==
    /\ pc = "start"
    /\ LET R == ReaderCreate(WasmObj)
       IN  /\ pc' = R.pc
           /\ Err' = R.Err
           /\ Symbols' = IF R.pc = "ready" THEN WasmObj.symbols ELSE <<>>
           /\ OpaqueSections' = IF R.pc = "ready" THEN R.Sections ELSE <<>>
           /\ LinkingData' = IF R.pc = "ready" THEN R.LinkingData
                             ELSE NoLinkingData
    /\ DataSegments' = <<>>
    /\ UNCHANGED <<WasmObj, Calls, Out>>

\* What a read outside OpaqueSections may add to an offset; the read happens
\* only when there are more marked indices than sections.
JunkBytes(Marked, Secs) ==
    IF Len(Marked) > Len(Secs) THEN {0, 1} ELSE {0}

\* What an erase at or past end() may do; it happens only when a marked
\* index is no position of the section list.
UbChoices(Marked, Secs) ==
    IF \E i \in 1..Len(Marked) : Marked[i] >= Len(Secs)
    THEN {"abort", "droplast"} ELSE {"abort"}

Snapshot ==
    [Symbols |-> Symbols, OpaqueSections |-> OpaqueSections,
     LinkingData |-> LinkingData, DataSegments |-> DataSegments]

\* One call Obj->removeSections(ToRemove).  The same predicate as in the
\* previous call may be passed again.
RemoveSections ==
    /\ pc = "ready"
    /\ Len(Calls) < MaxCalls
    /\ \E P \in SUBSET Range(OpaqueSections)
                \cup {Calls[i].P : i \in {Len(Calls)} \ {0}} :
       \E Garbage \in 0..Len(MarkedSectionsOf(OpaqueSections, P)) :
       \E Junk \in JunkBytes(MarkedSectionsOf(OpaqueSections, P), OpaqueSections) :
       \E Ub \in UbChoices(MarkedSectionsOf(OpaqueSections, P), OpaqueSections) :
          LET R == removeSections(Symbols, OpaqueSections, P, Garbage, Junk, Ub)
          IN  /\ pc' = IF R.ok THEN "ready" ELSE "aborted"
              /\ Symbols' = R.Symbols
              /\ OpaqueSections' = R.OpaqueSections
              /\ Calls' = Append(Calls,
                    [P |-> P,
                     Marked |-> MarkedSectionsOf(OpaqueSections, P),
                     Before |-> Snapshot])
    /\ UNCHANGED <<WasmObj, LinkingData, DataSegments, Err, Out>>

Next == Create \/ RemoveSections

Spec == Init /\ [][Next]_vars

(***************************************************************************)
(* The Objects finalizeLinking is run on: Object is a struct of public     *)
(* members, and the encoder reads Symbols, DataSegments and LinkingData.   *)
(***************************************************************************)
LongName == [i \in 1..130 |-> 110]

EncSymbolChoices ==
    { Symbol(WASM_SYMBOL_TYPE_FUNCTION, 0, 1, <<102>>, 0, 0, 0),
      Symbol(WASM_SYMBOL_TYPE_TABLE, WASM_SYMBOL_UNDEFINED, 2, <<117>>, 0, 0, 0),
      Symbol(WASM_SYMBOL_TYPE_GLOBAL,
             WASM_SYMBOL_UNDEFINED + WASM_SYMBOL_EXPLICIT_NAME,
             130, <<103>>, 0, 0, 0),
      Symbol(WASM_SYMBOL_TYPE_DATA, 0, 0, <<100>>, 0, 200, 4),
      Symbol(WASM_SYMBOL_TYPE_DATA, WASM_SYMBOL_UNDEFINED, 0, <<120>>, 1, 7, 3),
      Symbol(WASM_SYMBOL_TYPE_SECTION, 0, 1, <<>>, 0, 0, 0) }

EncSegmentChoices ==
    { [Name |-> <<115>>, Alignment |-> 2, LinkingFlags |-> 0],
      [Name |-> LongName, Alignment |-> 0, LinkingFlags |-> 1] }

EncInitFuncChoices ==
    { [Priority |-> 1, Symbol |-> 0], [Priority |-> 200, Symbol |-> 1] }

EncComdatChoices == { <<99>>, <<103, 104>> }

InitEnc ==
    /\ pc = "enc"
    /\ WasmObj = [sections |-> <<>>, symbols |-> <<>>,
                  linkingData |-> NoLinkingData, dataSegments |-> <<>>]
    /\ Symbols \in SeqsUpTo(EncSymbolChoices, MaxEncSymbols)
    /\ OpaqueSections = <<>>
    /\ LinkingData \in [InitFunctions : SeqsUpTo(EncInitFuncChoices, MaxEncEntries),
                        Comdats : SeqsUpTo(EncComdatChoices, MaxEncEntries)]
    /\ DataSegments \in SeqsUpTo(EncSegmentChoices, MaxEncEntries)
    /\ Err = ""
    /\ Calls = <<>>
    /\ Out = <<>>

\* One call Obj.finalizeLinking().
FinalizeLinking ==
    /\ pc = "enc"
    /\ pc' = "encoded"
    /\ Out' = finalizeLinking(Symbols, DataSegments, LinkingData)
    /\ UNCHANGED <<WasmObj, Symbols, OpaqueSections, LinkingData, DataSegments,
                   Err, Calls>>

NextEnc == FinalizeLinking

SpecEnc == InitEnc /\ [][NextEnc]_vars

(***************************************************************************)
(* Properties of Reader::create and removeSections, checked under Spec.    *)
(***************************************************************************)
\* The last removeSections call: its predicate, its marked indices and the
\* Object it was made on.
Last == Calls[Len(Calls)]

\* A call has been made, it marked something, and it returned.
ReturnedFromMarkingCall ==
    /\ pc = "ready"
    /\ Calls # <<>>
    /\ Last.Marked # <<>>

\* The number of marked indices strictly smaller than e.
MarkedBelow(Marked, e) == Cardinality({i \in 1..Len(Marked) : Marked[i] < e})

IsIndexKind(Info) == Info.Kind \in IndexKinds

ElementIndices(Syms) == [i \in 1..Len(Syms) |-> Syms[i].ElementIndex]

RenumberedIndices(Syms, Marked) ==
    [i \in 1..Len(Syms) |->
        Syms[i].ElementIndex - MarkedBelow(Marked, Syms[i].ElementIndex)]

NotData(Info) == Info.Kind # WASM_SYMBOL_TYPE_DATA

\* C1: after a removeSections call that marked at least one section, every
\* Function, Global, Tag or Table symbol (none of them is ever deleted) has
\* its former elementIndex minus the number of marked indices strictly below
\* it, and so has every Section symbol when no symbol was deleted.
C1_ElementIndexRenumbered ==
    ReturnedFromMarkingCall =>
        /\ ElementIndices(SelectSeq(Symbols, IsIndexKind))
             = RenumberedIndices(SelectSeq(Last.Before.Symbols, IsIndexKind),
                                 Last.Marked)
        /\ Len(Symbols) = Len(Last.Before.Symbols) =>
             ElementIndices(SelectSeq(Symbols, NotData))
               = RenumberedIndices(SelectSeq(Last.Before.Symbols, NotData),
                                   Last.Marked)

\* The indices the claims call marked: those of the sections P matches and
\* the RelocationSectionIdx of each of them.
MarkedSet(Secs, P) ==
    {i \in 0..Len(Secs) - 1 : ToRemove(P, Secs[i + 1])}
    \cup UNION {Secs[i + 1].RelocationSectionIdx :
                    i \in {j \in 0..Len(Secs) - 1 : ToRemove(P, Secs[j + 1])}}

\* Secs without the positions in M, the others in their order.
RECURSIVE Without(_, _, _)
Without(Secs, M, I) ==
    IF I >= Len(Secs) THEN <<>>
    ELSE IF I \in M THEN Without(Secs, M, I + 1)
         ELSE <<Secs[I + 1]>> \o Without(Secs, M, I + 1)

\* C2: the first removeSections call on an Object made by Reader::create
\* returns, and leaves exactly the original sections whose index is neither
\* that of a P-matching section nor the relocation index of one, in their
\* original order; no remaining section satisfies P.
C2_SectionsRemoved ==
    Len(Calls) = 1 =>
        /\ pc = "ready"
        /\ OpaqueSections =
             Without(Last.Before.OpaqueSections,
                     MarkedSet(Last.Before.OpaqueSections, Last.P), 0)
        /\ \A i \in 1..Len(OpaqueSections) : ~ToRemove(Last.P, OpaqueSections[i])

\* A first call that removed a matching section and, with it, a relocation
\* section the predicate did not match, and left a section behind.
C2_Witness ==
    /\ Len(Calls) = 1
    /\ pc = "ready"
    /\ OpaqueSections # <<>>
    /\ \E i \in 1..Len(Last.Marked) :
          ~ToRemove(Last.P, Last.Before.OpaqueSections[Last.Marked[i] + 1])

Kinds(Syms) == [i \in 1..Len(Syms) |-> Syms[i].Kind]

\* A Section symbol whose elementIndex, before the call, was a marked index.
Dangling(Info, Marked) ==
    isTypeSection(Info) /\ binary_search(Marked, Info.ElementIndex)

RECURSIVE WithoutDangling(_, _)
WithoutDangling(Syms, Marked) ==
    IF Syms = <<>> THEN <<>>
    ELSE IF Dangling(Syms[1], Marked)
         THEN WithoutDangling(Tail(Syms), Marked)
         ELSE <<Syms[1]>> \o WithoutDangling(Tail(Syms), Marked)

\* C3: after a removeSections call that marked at least one section, the
\* symbols left are, in their order, the former symbols except the Section
\* symbols whose former elementIndex was a marked index.
C3_DanglingSectionSymbolsDeleted ==
    ReturnedFromMarkingCall =>
        Kinds(Symbols) = Kinds(WithoutDangling(Last.Before.Symbols, Last.Marked))

\* C4: a removeSections call with the predicate of the call before it leaves
\* sections, symbols and linking data as that call left them: it marks
\* nothing.
C4_Idempotent ==
    (Len(Calls) >= 2 /\ Last.P = Calls[Len(Calls) - 1].P) =>
        /\ pc = "ready"
        /\ Last.Marked = <<>>
        /\ Snapshot = Last.Before

\* The same predicate passed twice, the first call having removed sections.
C4_Witness ==
    /\ Len(Calls) >= 2
    /\ Last.P = Calls[Len(Calls) - 1].P
    /\ Calls[Len(Calls) - 1].Marked # <<>>
    /\ OpaqueSections # <<>>

\* C9: Reader::create never ends in a fatal error: a relocation section it
\* cannot accept makes it return an Error.
C9_RelocErrorsReturned ==
    Calls = <<>> => pc # "aborted"

\* The section at index r is a "reloc." section whose leading varint is i.
RelocatesSection(Secs, r, i) ==
    /\ r < Len(Secs)
    /\ starts_with(Secs[r + 1].Name, RelocPrefix)
    /\ LET D == decodeULEB128(Secs[r + 1].Contents)
       IN  D.Error = "" /\ ~AtLeast(D.Slices, i + 1) /\ D.Slices[1] = i

\* C10: in every Object, after Reader::create and after any removeSections
\* calls, each RelocationSectionIdx is the index of the "reloc." section
\* that targets its section.
C10_RelocationIndexValid ==
    pc = "ready" =>
        \A i \in 0..Len(OpaqueSections) - 1 :
            \A r \in OpaqueSections[i + 1].RelocationSectionIdx :
                RelocatesSection(OpaqueSections, r, i)

IsData(Info) == Info.Kind = WASM_SYMBOL_TYPE_DATA

DataRefs(Syms) == [i \in 1..Len(Syms) |-> Syms[i].DataRef]

\* A section's content size minus its header-size-field width, 5 when the
\* width is absent.
ContentBytes(S) ==
    Len(S.Contents) - (IF S.HeaderSecSizeEncodingLen = {} THEN 5
                       ELSE CHOOSE h \in S.HeaderSecSizeEncodingLen : TRUE)

\* The marked sections at or above the first marked index greater than e:
\* Marked is sorted, so they are the marked indices greater than e.
MarkedAbove(Secs, Marked, e) ==
    {m \in 0..Len(Secs) - 1 : m > e /\ \E i \in 1..Len(Marked) : Marked[i] = m}

RECURSIVE SumContentBytes(_, _)
SumContentBytes(Secs, M) ==
    IF M = {} THEN 0
    ELSE LET m == CHOOSE x \in M : TRUE
         IN  ContentBytes(Secs[m + 1]) + SumContentBytes(Secs, M \ {m})

ExpectedDataRef(Info, Secs, Marked) ==
    IF HasFlag(Info.Flags, WASM_SYMBOL_UNDEFINED) THEN Info.DataRef
    ELSE [Info.DataRef EXCEPT
            !.Offset = @ - SumContentBytes(Secs,
                               MarkedAbove(Secs, Marked, Info.ElementIndex))]

\* C11: after a removeSections call that marked at least one section, every
\* Data symbol (none of them is ever deleted) that is not flagged undefined
\* has its former dataRef.offset minus the summed content bytes (content
\* size minus header-size-field width, 5 when absent) of the marked sections
\* at or above the first marked index greater than its reference point, and
\* every Data symbol flagged undefined has its former dataRef.
C11_DataOffsetPatched ==
    ReturnedFromMarkingCall =>
        DataRefs(SelectSeq(Symbols, IsData))
          = [i \in 1..Len(SelectSeq(Last.Before.Symbols, IsData)) |->
                ExpectedDataRef(SelectSeq(Last.Before.Symbols, IsData)[i],
                                Last.Before.OpaqueSections, Last.Marked)]

\* The symbols whose case runs the offset loop (lines 80-86 and 90-96).
RunsOffsetLoop(Info) ==
    \/ IsIndexKind(Info)
    \/ IsData(Info) /\ ~HasFlag(Info.Flags, WASM_SYMBOL_UNDEFINED)

\* C12: in the first removeSections call on an Object made by Reader::create
\* that marks a section, for every symbol whose case runs the offset loop,
\* the upper-bound position read as *Upper is not the end position of the
\* marked list, and every I of the loop, from *Upper to one less than the
\* number of marked indices, is smaller than the section count.
C12_NoOutOfRangeRead ==
    (Len(Calls) = 1 /\ Last.Marked # <<>>) =>
        \A i \in 1..Len(Last.Before.Symbols) :
            LET Info == Last.Before.Symbols[i]
                Upper == upper_bound(Last.Marked, Info.ElementIndex, 0)
            IN  RunsOffsetLoop(Info) =>
                    /\ Upper < Len(Last.Marked)
                    /\ \A I \in Last.Marked[Upper + 1]..Len(Last.Marked) - 1 :
                          I < Len(Last.Before.OpaqueSections)

(***************************************************************************)
(* Properties of finalizeLinking, checked under SpecEnc.                   *)
(***************************************************************************)
ULEB(Value) == encodeULEB128(Value, 0)

\* A length-prefixed byte string: the byte count as a varint, then the bytes.
LengthPrefixed(Str) == ULEB(Len(Str)) \o Str

\* The bytes of a name as writeString leaves them.
Bare(Str) == Str

RECURSIVE Flatten(_)
Flatten(Seqs) == IF Seqs = <<>> THEN <<>> ELSE Seqs[1] \o Flatten(Tail(Seqs))

\* One symbol's record as C6 describes it.
SymbolRecord(Info) ==
    <<Info.Kind>> \o ULEB(Info.Flags) \o
    (CASE Info.Kind \in IndexKinds ->
            ULEB(Info.ElementIndex) \o
            (IF \/ ~HasFlag(Info.Flags, WASM_SYMBOL_UNDEFINED)
                \/ HasFlag(Info.Flags, WASM_SYMBOL_EXPLICIT_NAME)
             THEN Bare(Info.Name) ELSE <<>>)
       [] Info.Kind = WASM_SYMBOL_TYPE_DATA ->
            Bare(Info.Name) \o
            (IF ~HasFlag(Info.Flags, WASM_SYMBOL_UNDEFINED)
             THEN ULEB(Info.DataRef.Segment) \o ULEB(Info.DataRef.Offset)
                  \o ULEB(Info.DataRef.Size)
             ELSE <<>>)
       [] OTHER -> ULEB(Info.ElementIndex))

SymbolTablePayload(Syms) ==
    ULEB(Len(Syms)) \o Flatten([i \in 1..Len(Syms) |-> SymbolRecord(Syms[i])])

SegmentInfoPayload(NameBytes(_), Segs) ==
    ULEB(Len(Segs)) \o
    Flatten([i \in 1..Len(Segs) |->
        NameBytes(Segs[i].Name) \o ULEB(Segs[i].Alignment)
        \o ULEB(Segs[i].LinkingFlags)])

InitFuncsPayload(Funcs) ==
    ULEB(Len(Funcs)) \o
    Flatten([i \in 1..Len(Funcs) |->
        ULEB(Funcs[i].Priority) \o ULEB(Funcs[i].Symbol)])

\* After the name: the reserved flags, and the number the code puts in the
\* place of the entry count.
ComdatInfoPayload(NameBytes(_), Comdats) ==
    ULEB(Len(Comdats)) \o
    Flatten([i \in 1..Len(Comdats) |->
        NameBytes(Comdats[i]) \o ULEB(0) \o ULEB(Len(Comdats[i]))])

\* The subsections due, in the fixed order, each with its kind and its
\* payload; NameBytes is the encoding of segment and comdat names.
Subsections(NameBytes(_)) ==
    (IF Symbols # <<>>
     THEN <<[Kind |-> WASM_SYMBOL_TABLE,
             Payload |-> SymbolTablePayload(Symbols)]>> ELSE <<>>)
    \o (IF DataSegments # <<>>
        THEN <<[Kind |-> WASM_SEGMENT_INFO,
                Payload |-> SegmentInfoPayload(NameBytes, DataSegments)]>>
        ELSE <<>>)
    \o (IF LinkingData.InitFunctions # <<>>
        THEN <<[Kind |-> WASM_INIT_FUNCS,
                Payload |-> InitFuncsPayload(LinkingData.InitFunctions)]>>
        ELSE <<>>)
    \o (IF LinkingData.Comdats # <<>>
        THEN <<[Kind |-> WASM_COMDAT_INFO,
                Payload |-> ComdatInfoPayload(NameBytes, LinkingData.Comdats)]>>
        ELSE <<>>)

\* The width of the length field startSubsection reserves.
LengthFieldWidth == Len(encodeULEB128(0, 5))

\* Where subsection number k (from 1) starts in the output: after the
\* version and the k - 1 subsections before it, each a tag, a length field
\* and its payload.
RECURSIVE SubsectionStart(_, _)
SubsectionStart(Subs, k) ==
    IF k = 1 THEN Len(ULEB(WasmMetadataVersion))
    ELSE SubsectionStart(Subs, k - 1)
         + 1 + LengthFieldWidth + Len(Subs[k - 1].Payload)

\* The bytes of the output where subsection k's payload lies (fewer, if the
\* output ends before).
PayloadAt(Subs, k) ==
    LET Upto == SubsectionStart(Subs, k + 1)
    IN  SubSeq(Out, SubsectionStart(Subs, k) + 1 + LengthFieldWidth + 1,
                    IF Upto <= Len(Out) THEN Upto ELSE Len(Out))

\* The position of the subsection of kind Kind among the subsections due.
IndexOfKind(Subs, Kind) == CHOOSE k \in 1..Len(Subs) : Subs[k].Kind = Kind

\* C5: the output is the version followed, for each subsection, by its tag,
\* the byte count of its payload as a varint padded to the placeholder's
\* width, and the payload.
C5_SubsectionFraming ==
    pc = "encoded" =>
        Out = ULEB(WasmMetadataVersion) \o
              Flatten([k \in 1..Len(Subsections(Bare)) |->
                  <<Subsections(Bare)[k].Kind>>
                  \o encodeULEB128(Len(Subsections(Bare)[k].Payload),
                                   LengthFieldWidth)
                  \o Subsections(Bare)[k].Payload])

\* C6: when there are symbols, the payload of the first subsection is the
\* symbol count and then, per symbol in table order, kind, flags and the
\* fields of its kind: element index and, unless undefined without an
\* explicit name, the name; for Data the name and, unless undefined, segment,
\* offset and size; for Section the element index alone.
C6_SymbolTablePayload ==
    (pc = "encoded" /\ Symbols # <<>>) =>
        /\ PayloadAt(Subsections(Bare), 1) = SymbolTablePayload(Symbols)
        /\ Len(Subsections(Bare)) = 1 =>
             Len(Out) = SubsectionStart(Subsections(Bare), 2)

\* An encoded table holding an undefined Data symbol, whose dataRef is set
\* in memory, next to a symbol whose name is written.
C6_Witness ==
    /\ pc = "encoded"
    /\ Len(Symbols) >= 2
    /\ \E i \in 1..Len(Symbols) :
          /\ Symbols[i].Kind = WASM_SYMBOL_TYPE_DATA
          /\ HasFlag(Symbols[i].Flags, WASM_SYMBOL_UNDEFINED)
          /\ Symbols[i].DataRef.Offset # 0
    /\ \E i \in 1..Len(Symbols) :
          /\ Symbols[i].Kind \in IndexKinds
          /\ HasFlag(Symbols[i].Flags, WASM_SYMBOL_EXPLICIT_NAME)

\* C7: the payloads of the Segment Info and Comdat Info subsections hold
\* every name as a length-prefixed byte string.
C7_NamesLengthPrefixed ==
    pc = "encoded" =>
        /\ DataSegments # <<>> =>
             PayloadAt(Subsections(LengthPrefixed),
                       IndexOfKind(Subsections(LengthPrefixed),
                                   WASM_SEGMENT_INFO))
               = SegmentInfoPayload(LengthPrefixed, DataSegments)
        /\ LinkingData.Comdats # <<>> =>
             PayloadAt(Subsections(LengthPrefixed),
                       IndexOfKind(Subsections(LengthPrefixed),
                                   WASM_COMDAT_INFO))
               = ComdatInfoPayload(LengthPrefixed, LinkingData.Comdats)

\* C8: the output starts with the version varint; after it comes one
\* subsection (tag byte, length field, payload) for each non-empty list and
\* none for an empty one, in the order Symbol Table, Segment Info, Init
\* Functions, Comdat Info, and nothing else; with every list empty the
\* output is the version varint alone.
C8_SubsectionsWhenNonEmpty ==
    pc = "encoded" =>
        /\ SubSeq(Out, 1, Len(ULEB(WasmMetadataVersion)))
             = ULEB(WasmMetadataVersion)
        /\ Len(Out) = SubsectionStart(Subsections(Bare),
                                      Len(Subsections(Bare)) + 1)
        /\ \A k \in 1..Len(Subsections(Bare)) :
             PayloadAt(Subsections(Bare), k) = Subsections(Bare)[k].Payload
        /\ (/\ Symbols = <<>>
            /\ DataSegments = <<>>
            /\ LinkingData.InitFunctions = <<>>
            /\ LinkingData.Comdats = <<>>) => Out = ULEB(WasmMetadataVersion)

\* An encoding where two lists are empty and the two others are not.
C8_Witness ==
    /\ pc = "encoded"
    /\ Symbols = <<>>
    /\ DataSegments # <<>>
    /\ LinkingData.InitFunctions = <<>>
    /\ LinkingData.Comdats # <<>>
    /\ Len(Out) > Len(ULEB(WasmMetadataVersion))

=============================================================================
